---- MODULE Spec2Model ----
(***************************************************************************)
(* External scanner of the ptall / thalo tree-sitter grammar               *)
(* (packages/grammar/src/scanner.c).                                       *)
(*                                                                         *)
(* The scanner is called by the host parser with a character cursor        *)
(* (TSLexer) and a vector saying which external tokens are acceptable.     *)
(* It answers match / no match; on a match it has set result_symbol and    *)
(* marked the token end.  The model keeps the cursor as a record, the C    *)
(* helpers as operators on that record, and steps through scan_newline     *)
(* one loop iteration at a time.                                           *)
(***************************************************************************)
EXTENDS Integers, Sequences, FiniteSets, TLC

(***************************************************************************)
(* Code points the scanner tests for.                                      *)
(***************************************************************************)
LF == 10
CR == 13
SP == 32
TAB == 9
SLASH == 47

\* Code points that are none of the above ('b'): ordinary content.
ContentChars == {98}

Chars == {LF, CR, SP, TAB, SLASH} \cup ContentChars

(***************************************************************************)
(* Bounds of the model.                                                    *)
(***************************************************************************)
\* Every string over Chars of at most MaxLen code points is an input.
MaxLen == 5
\* Every text of at most MaxLines lines drawn from Lines is an input.
MaxLines == 3
\* Length of the inputs of the calls checked for termination.
MaxFairLen == 4

(***************************************************************************)
(* enum TokenType                                                          *)
(***************************************************************************)
INDENT == "INDENT"
CONTENT_BLANK == "CONTENT_BLANK"
ERROR_SENTINEL == "ERROR_SENTINEL"
TokenType == {INDENT, CONTENT_BLANK, ERROR_SENTINEL}

\* result_symbol as the host leaves it before the call: nothing reported.
NO_SYMBOL == "NO_SYMBOL"
\* token end as the host leaves it before the call: mark_end not called.
NO_MARK == 0 - 1

\* One scan call: the cursor, the acceptable kinds, the control point and
\* the returned verdict.
VARIABLES lexer, valid_symbols, pc, ret

\* The parse session around the calls: the scanner instance (payload), the
\* host's serialization buffer, the lengths serialize has returned, and
\* what the previous scan call was given and answered.
VARIABLES scanner, buffer, serialized, prev

vars == <<lexer, valid_symbols, pc, ret, scanner, buffer, serialized, prev>>

(***************************************************************************)
(* The cursor (TSLexer) as the scanner sees it.                            *)
(*   input         the code points from the position scan is called at     *)
(*   pos           how many of them have been consumed (read position)     *)
(*   token_end     position of the last mark_end, NO_MARK before the first *)
(*   result_symbol the reported token kind                                 *)
(*   advances, mark_ends   calls made during this scan call                *)
(***************************************************************************)
NewLexer(inp) ==
    [input |-> inp, pos |-> 0, token_end |-> NO_MARK,
     result_symbol |-> NO_SYMBOL, advances |-> 0, mark_ends |-> 0]

\* lexer->eof(lexer)
eof(l) == l.pos >= Len(l.input)

\* lexer->lookahead: the current code point, 0 at end of input
lookahead(l) == IF eof(l) THEN 0 ELSE l.input[l.pos + 1]

\* lexer->mark_end(lexer)
mark_end(l) == [l EXCEPT !.token_end = l.pos, !.mark_ends = @ + 1]

\* advance(lexer): lexer->advance(lexer, false); a no-op on the position
\* at end of input
advance(l) ==
    [l EXCEPT !.pos = IF eof(l) THEN @ ELSE @ + 1, !.advances = @ + 1]

is_newline(c) == c = LF \/ c = CR

is_hspace(c) == c = SP \/ c = TAB

\* faulty variant: the recovery gate never closes
in_error_recovery_never(valid) == FALSE

in_error_recovery(valid) == valid[ERROR_SENTINEL]

\* faulty variant: "proper indentation (2+ spaces or tab)"
has_valid_indent_two(indent, has_tab) == has_tab \/ indent >= 2

\* faulty variant: zero indentation counts as indentation
has_valid_indent_zero(indent, has_tab) == has_tab \/ indent >= 0

has_valid_indent(indent, has_tab) == has_tab \/ indent >= 1

\* faulty variant: two code points consumed whatever they are
consume_newline_twice(l) == advance(advance(l))

\* faulty variant: \r\n taken as two line breaks
consume_newline_single(l) == advance(l)

\* consume_newline: \n, or \r optionally followed by \n, as one unit
consume_newline(l) ==
    LET was_cr == lookahead(l) = CR
        l1 == advance(l)
    IN  IF was_cr /\ lookahead(l1) = LF THEN advance(l1) ELSE l1

\* the while loop of consume_indentation
RECURSIVE indentation_loop(_, _, _)
indentation_loop(l, indent, has_tab) ==
    IF is_hspace(lookahead(l))
    THEN indentation_loop(advance(l), indent + 1,
                          has_tab \/ lookahead(l) = TAB)
    ELSE [lexer |-> l, indent |-> indent, has_tab |-> has_tab]

\* consume_indentation: the cursor after the indentation, the count and
\* the has_tab out-parameter
consume_indentation(l) == indentation_loop(l, 0, FALSE)

\* faulty variant: the comment skip also consumes the terminating line break
RECURSIVE skip_to_eol_past_break(_)
skip_to_eol_past_break(l) ==
    IF eof(l) THEN l
    ELSE IF is_newline(lookahead(l)) THEN advance(l)
    ELSE skip_to_eol_past_break(advance(l))

\* "skip to end of line": while (!is_newline(lookahead) && !eof) advance
RECURSIVE skip_to_eol(_)
skip_to_eol(l) ==
    IF ~is_newline(lookahead(l)) /\ ~eof(l)
    THEN skip_to_eol(advance(l))
    ELSE l

(***************************************************************************)
(* Control points of one scan call.                                        *)
(*   "idle"       the host has not called scan yet                         *)
(*   "call"       scan has been called, nothing done yet                   *)
(*   "line"       at the top of the comment-skipping loop of scan_newline  *)
(*   "lookahead"  at the test of the blank-line lookahead loop             *)
(*   "done"       scan has returned ret                                    *)
(***************************************************************************)
Return(l, r) == [lexer |-> l, pc |-> "done", ret |-> r]

Goto(l, label) == [lexer |-> l, pc |-> label, ret |-> FALSE]

\* faulty variant: INDENT reported without marking the token end
indent_match_unmarked(l) ==
    Return([l EXCEPT !.result_symbol = INDENT], TRUE)

\* scan_newline, Case 1: mark the token end here and report INDENT
indent_match(l) ==
    Return([mark_end(l) EXCEPT !.result_symbol = INDENT], TRUE)

\* faulty variant: the kind is set before the lookahead has decided
blank_line_mark_early(l) ==
    Goto([mark_end(l) EXCEPT !.result_symbol = CONTENT_BLANK], "lookahead")

\* scan_newline, Case 2: mark the end after the blank line, then look ahead
blank_line_mark(l) == Goto(mark_end(l), "lookahead")

\* faulty variant: the token end is marked again where the lookahead stopped
content_blank_match_remark(l) ==
    Return([mark_end(l) EXCEPT !.result_symbol = CONTENT_BLANK], TRUE)

\* scan_newline, lookahead found indented content: report CONTENT_BLANK
content_blank_match(l) ==
    Return([l EXCEPT !.result_symbol = CONTENT_BLANK], TRUE)

\* faulty variant: scan_newline entered whatever the acceptable kinds
scan_ungated(l, valid) ==
    IF in_error_recovery(valid) THEN Return(l, FALSE)
    ELSE IF ~is_newline(lookahead(l))
         THEN Return(l, FALSE)
         ELSE Goto(l, "line")

\* scan, and the entry test of scan_newline
scan(l, valid) ==
    IF in_error_recovery(valid) THEN Return(l, FALSE)
    ELSE IF valid[INDENT] \/ valid[CONTENT_BLANK]
         THEN IF ~is_newline(lookahead(l))
              THEN Return(l, FALSE)
              ELSE Goto(l, "line")
         ELSE Return(l, FALSE)

\* faulty variant: end of input is not taken as the end of a line
line_at_eol_no_eof(l) == is_newline(lookahead(l))

\* faulty variant: a line break is not taken as the end of a line
line_at_eol_no_break(l) == eof(l)

\* scan_newline: bool at_eol = is_newline(lexer->lookahead) || lexer->eof(lexer)
line_at_eol(l) == is_newline(lookahead(l)) \/ eof(l)

\* faulty variant: a single / already makes the line a comment
scan_newline_line_one_slash(l, valid) ==
    LET l1 == consume_newline(l)
        ci == consume_indentation(l1)
        l2 == ci.lexer
        at_eol == line_at_eol(l2)
        valid_indent == has_valid_indent(ci.indent, ci.has_tab)
        slash == ~at_eol /\ lookahead(l2) = SLASH
        l3 == IF slash THEN advance(l2) ELSE l2
        comment == slash
        l4 == skip_to_eol(l3)
    IN  IF comment
        THEN IF is_newline(lookahead(l4))
             THEN Goto(l4, "line")
             ELSE Return(l4, FALSE)
        ELSE IF ~at_eol /\ valid_indent /\ valid[INDENT]
        THEN indent_match(l3)
        ELSE IF at_eol /\ valid[CONTENT_BLANK]
        THEN blank_line_mark(l3)
        ELSE Return(l3, FALSE)

\* scan_newline: one iteration of the outer while (true) loop, up to the
\* return, the continue, or the entry of the lookahead loop
scan_newline_line(l, valid) ==
    LET l1 == consume_newline(l)
        ci == consume_indentation(l1)
        l2 == ci.lexer
        at_eol == line_at_eol(l2)
        valid_indent == has_valid_indent(ci.indent, ci.has_tab)
        slash == ~at_eol /\ lookahead(l2) = SLASH
        l3 == IF slash THEN advance(l2) ELSE l2
        comment == slash /\ lookahead(l3) = SLASH
        l4 == skip_to_eol(l3)
    IN  IF comment
        THEN IF is_newline(lookahead(l4))
             THEN Goto(l4, "line")
             ELSE Return(l4, FALSE)
        ELSE IF ~at_eol /\ valid_indent /\ valid[INDENT]
        THEN indent_match(l3)
        ELSE IF at_eol /\ valid[CONTENT_BLANK]
        THEN blank_line_mark(l3)
        ELSE Return(l3, FALSE)

\* scan_newline: the test and one iteration of the lookahead loop
\* while (is_newline(lexer->lookahead)), or the return after it
scan_newline_lookahead(l) ==
    IF ~is_newline(lookahead(l)) THEN Return(l, FALSE)
    ELSE
    LET l1 == consume_newline(l)
        ci == consume_indentation(l1)
        l2 == ci.lexer
        slash == lookahead(l2) = SLASH
        l3 == IF slash THEN advance(l2) ELSE l2
        comment == slash /\ lookahead(l3) = SLASH
    IN  IF ~is_newline(lookahead(l2)) /\ ~eof(l2)
        THEN IF comment
             THEN Goto(skip_to_eol(l3), "lookahead")
             ELSE IF has_valid_indent(ci.indent, ci.has_tab)
             THEN content_blank_match(l3)
             ELSE Return(l3, FALSE)
        ELSE Goto(l2, "lookahead")

\* One step of a scan call from control point p.
Step(f, valid) ==
    IF f.pc = "call" THEN scan(f.lexer, valid)
    ELSE IF f.pc = "line" THEN scan_newline_line(f.lexer, valid)
    ELSE scan_newline_lookahead(f.lexer)

\* A whole scan call: tree_sitter_ptall_external_scanner_scan
RECURSIVE RunFrom(_, _)
RunFrom(f, valid) ==
    IF f.pc = "done" THEN f ELSE RunFrom(Step(f, valid), valid)

external_scanner_scan(inp, valid) == RunFrom(Goto(NewLexer(inp), "call"), valid)

(***************************************************************************)
(* Inputs.                                                                 *)
(***************************************************************************)
Strings(n) == UNION {[1..k -> Chars] : k \in 0..n}

Indents == {<<>>, <<SP>>, <<TAB>>}
Bodies == {<<>>, <<SLASH, SLASH>>, <<SLASH>>} \cup {<<c>> : c \in ContentChars}
Lines == {i \o b : i \in Indents, b \in Bodies}

\* each line preceded by its line break; the last line ends at end of input
RECURSIVE JoinLines(_)
JoinLines(ls) ==
    IF ls = <<>> THEN <<>> ELSE <<LF>> \o Head(ls) \o JoinLines(Tail(ls))

LineInputs(n) == {JoinLines(ls) : ls \in UNION {[1..k -> Lines] : k \in 1..n}}

Inputs == Strings(MaxLen) \cup LineInputs(MaxLines)

ValidVectors == [TokenType -> BOOLEAN]

(***************************************************************************)
(* The scanner instance and its lifecycle hooks.                           *)
(***************************************************************************)
\* no instance: before create and after destroy
NULL == [allocated |-> FALSE, reserved |-> 0]

\* no scan call yet; after a call, the one-element sequence of its record
NoCall == <<>>

\* tree_sitter_ptall_external_scanner_create: ts_calloc(1, sizeof(Scanner))
external_scanner_create == [allocated |-> TRUE, reserved |-> 0]

\* tree_sitter_ptall_external_scanner_destroy: ts_free(scanner)
external_scanner_destroy(payload) == NULL

\* faulty variant: the reserved byte is written out
external_scanner_serialize_byte(payload, buf) ==
    [length |-> 1, buffer |-> <<payload.reserved>> \o Tail(buf)]

\* tree_sitter_ptall_external_scanner_serialize: the returned length and
\* the buffer after the call
external_scanner_serialize(payload, buf) == [length |-> 0, buffer |-> buf]

\* tree_sitter_ptall_external_scanner_deserialize: the instance after the
\* call
external_scanner_deserialize(payload, buf, length) == payload

(***************************************************************************)
(* The state machine of one scan call.                                     *)
(***************************************************************************)
Init ==
    /\ lexer \in {NewLexer(inp) : inp \in Inputs}
    /\ valid_symbols \in ValidVectors
    /\ pc = "call"
    /\ ret = FALSE
    /\ scanner = external_scanner_create
    /\ buffer = <<0>>
    /\ serialized = {}
    /\ prev = NoCall

Apply(result) ==
    \E r \in {result} :
        /\ lexer' = r.lexer
        /\ pc' = r.pc
        /\ ret' = r.ret
        /\ UNCHANGED <<valid_symbols, scanner, buffer, serialized, prev>>

Scan ==
    /\ pc = "call"
    /\ Apply(scan(lexer, valid_symbols))

ScanLine ==
    /\ pc = "line"
    /\ Apply(scan_newline_line(lexer, valid_symbols))

LookaheadLine ==
    /\ pc = "lookahead"
    /\ Apply(scan_newline_lookahead(lexer))

Next == Scan \/ ScanLine \/ LookaheadLine

Spec == Init /\ [][Next]_vars

\* Inputs of the calls whose termination is checked: every string of at
\* most MaxFairLen code points out of line breaks of both forms,
\* indentation and slashes (a lone slash is content).
FairChars == {LF, CR, SP, SLASH}
FairInputs == UNION {[1..k -> FairChars] : k \in 0..MaxFairLen}

InitFair ==
    /\ lexer \in {NewLexer(inp) : inp \in FairInputs}
    /\ valid_symbols \in ValidVectors
    /\ pc = "call"
    /\ ret = FALSE
    /\ scanner = external_scanner_create
    /\ buffer = <<0>>
    /\ serialized = {}
    /\ prev = NoCall

\* A scan call is synchronous and runs to completion: a step that can be
\* taken is taken.
SpecFair == InitFair /\ [][Next]_vars /\ WF_vars(Next)

(***************************************************************************)
(* The state machine of a parse session: the host creates the scanner,     *)
(* calls scan at positions of its choice, serializes and deserializes the  *)
(* instance between calls, and destroys it.                                *)
(***************************************************************************)
\* what the host scans in a session: a line break before indented content
\* (\n and \r\n), before a lone slash, before a blank line with indented
\* and with unindented content behind it, before unindented content, before
\* the end of input, and no line break
SessionInputs ==
    {<<LF, SP, 98>>, <<CR, LF, TAB, SLASH, 98>>, <<LF, LF, SP, 98>>,
     <<LF, SP, LF, SLASH, SLASH, LF, 98>>, <<LF, 98>>, <<LF>>, <<98>>}

\* what the host's buffer holds before serialize is called
SessionBuffers == {<<0>>, <<1>>}

Idle == pc \in {"idle", "done"}

InitSession ==
    /\ lexer = NewLexer(<<>>)
    /\ valid_symbols = [t \in TokenType |-> FALSE]
    /\ pc = "idle"
    /\ ret = FALSE
    /\ scanner = NULL
    /\ buffer \in SessionBuffers
    /\ serialized = {}
    /\ prev = NoCall

Create ==
    /\ scanner = NULL
    /\ scanner' = external_scanner_create
    /\ UNCHANGED <<lexer, valid_symbols, pc, ret, buffer, serialized, prev>>

Destroy ==
    /\ scanner # NULL
    /\ Idle
    /\ scanner' = external_scanner_destroy(scanner)
    /\ UNCHANGED <<lexer, valid_symbols, pc, ret, buffer, serialized, prev>>

Serialize ==
    /\ scanner # NULL
    /\ Idle
    /\ LET r == external_scanner_serialize(scanner, buffer)
       IN  /\ serialized' = serialized \cup {r.length}
           /\ buffer' = r.buffer
    /\ UNCHANGED <<lexer, valid_symbols, pc, ret, scanner, prev>>

\* the host hands back what an earlier serialize returned, or nothing
Deserialize ==
    /\ scanner # NULL
    /\ Idle
    /\ \E length \in {0} \cup serialized :
          scanner' = external_scanner_deserialize(scanner, buffer, length)
    /\ UNCHANGED <<lexer, valid_symbols, pc, ret, buffer, serialized, prev>>

\* the host calls scan; the call before it is remembered
Call ==
    /\ scanner # NULL
    /\ Idle
    /\ prev' = IF pc = "done"
               THEN <<[input |-> lexer.input, valid |-> valid_symbols,
                       ret |-> ret, result_symbol |-> lexer.result_symbol,
                       token_end |-> lexer.token_end]>>
               ELSE prev
    /\ lexer' \in {NewLexer(inp) : inp \in SessionInputs}
    /\ valid_symbols' \in ValidVectors
    /\ pc' = "call"
    /\ UNCHANGED <<ret, scanner, buffer, serialized>>

NextSession ==
    \/ Create
    \/ Destroy
    \/ Serialize
    \/ Deserialize
    \/ Call
    \/ Scan
    \/ ScanLine
    \/ LookaheadLine

SpecSession == InitSession /\ [][NextSession]_vars

TypeOK ==
    /\ lexer.input \in Inputs \cup FairInputs \cup SessionInputs
    /\ lexer.pos \in 0..Len(lexer.input)
    /\ lexer.token_end \in {NO_MARK} \cup 0..Len(lexer.input)
    /\ lexer.result_symbol \in TokenType \cup {NO_SYMBOL}
    /\ valid_symbols \in ValidVectors
    /\ pc \in {"idle", "call", "line", "lookahead", "done"}
    /\ ret \in BOOLEAN
    /\ scanner \in {NULL, external_scanner_create}
    /\ buffer \in SessionBuffers
    /\ serialized \subseteq {0}
    /\ Len(prev) <= 1

(***************************************************************************)
(* The text as the specification reads it: logical line breaks, lines,     *)
(* indentation, blank / comment / content lines.  These definitions do not *)
(* use the scanner's operators.                                            *)
(***************************************************************************)
input == lexer.input

At(s, i) == IF i \in 1..Len(s) THEN s[i] ELSE 0

\* length of the logical line break that starts at index i, 0 if none
BreakLen(s, i) ==
    IF At(s, i) = LF THEN 1
    ELSE IF At(s, i) = CR THEN (IF At(s, i + 1) = LF THEN 2 ELSE 1)
    ELSE 0

\* index of the first code point at or after i that is no space or tab
RECURSIVE AfterIndent(_, _)
AfterIndent(s, i) ==
    IF At(s, i) \in {SP, TAB} THEN AfterIndent(s, i + 1) ELSE i

\* index of the first line break at or after i, Len(s) + 1 if none
RECURSIVE LineEnd(_, _)
LineEnd(s, i) ==
    IF i > Len(s) \/ At(s, i) \in {LF, CR} THEN i ELSE LineEnd(s, i + 1)

LineIndent(s, i) == AfterIndent(s, i) - i

\* kind of the line that starts at index i
\*   "end"      only indentation up to the end of input
\*   "blank"    only indentation up to a line break
\*   "comment"  indentation, then //
\*   "content"  anything else
LineKind(s, i) ==
    LET j == AfterIndent(s, i)
    IN  IF j > Len(s) THEN "end"
        ELSE IF s[j] \in {LF, CR} THEN "blank"
        ELSE IF s[j] = SLASH /\ At(s, j + 1) = SLASH THEN "comment"
        ELSE "content"

\* start of the line after the line that starts at i, 0 if there is none
NextLine(s, i) ==
    LET e == LineEnd(s, i)
    IN  IF e > Len(s) THEN 0 ELSE e + BreakLen(s, e)

\* start of the line after the line break the cursor is at, 0 if the
\* cursor is not at a line break
FirstLine(s) == IF BreakLen(s, 1) = 0 THEN 0 ELSE 1 + BreakLen(s, 1)

\* first line at or after line i that is no comment-only line, 0 if none
RECURSIVE SkipComments(_, _)
SkipComments(s, i) ==
    IF i = 0 THEN 0
    ELSE IF LineKind(s, i) = "comment" THEN SkipComments(s, NextLine(s, i))
    ELSE i

\* first content line at or after line i, behind blank and comment-only
\* lines, 0 if none
RECURSIVE FirstContent(_, _)
FirstContent(s, i) ==
    IF i = 0 THEN 0
    ELSE IF LineKind(s, i) \in {"blank", "comment"}
         THEN FirstContent(s, NextLine(s, i))
    ELSE IF LineKind(s, i) = "content" THEN i
    ELSE 0

Returned == pc = "done"
Matched == pc = "done" /\ ret
Declined == pc = "done" /\ ~ret

(***************************************************************************)
(* C1: at a line break followed by a line with at least one space or tab   *)
(* of indentation and then non-comment content, with INDENT acceptable and *)
(* ERROR_SENTINEL not, scan matches INDENT.                                *)
(***************************************************************************)
C1_Case ==
    /\ FirstLine(input) # 0
    /\ LineKind(input, FirstLine(input)) = "content"
    /\ LineIndent(input, FirstLine(input)) >= 1
    /\ valid_symbols[INDENT]
    /\ ~valid_symbols[ERROR_SENTINEL]

C2_Case ==
    /\ FirstLine(input) # 0
    /\ LineKind(input, FirstLine(input)) = "blank"
    /\ FirstContent(input, FirstLine(input)) # 0
    /\ LineIndent(input, FirstContent(input, FirstLine(input))) >= 1
    /\ valid_symbols[CONTENT_BLANK]
    /\ ~valid_symbols[ERROR_SENTINEL]

C2_BlankRunMatchesContentBlank ==
    (Returned /\ C2_Case) =>
        /\ ret
        /\ lexer.result_symbol = CONTENT_BLANK
        /\ lexer.token_end = LineEnd(input, FirstLine(input)) - 1

\* a whitespace-only first line, a comment-only line in the run, and the
\* read position past the token end
C2_Witness ==
    /\ Matched
    /\ C2_Case
    /\ \E i \in 1..Len(input) :
          /\ i < FirstContent(input, FirstLine(input))
          /\ i > FirstLine(input)
          /\ LineKind(input, i) = "comment"
          /\ At(input, i - 1) = LF
    /\ lexer.pos > lexer.token_end

(***************************************************************************)
(* C3: at a line break followed by a blank run, if the first non-comment   *)
(* content line behind the run has no indentation, scan returns no match   *)
(* whatever is acceptable and however many comment-only lines were         *)
(* skipped.                                                                *)
(***************************************************************************)
C3_Case ==
    /\ FirstLine(input) # 0
    /\ LineKind(input, FirstLine(input)) = "blank"
    /\ FirstContent(input, FirstLine(input)) # 0
    /\ LineIndent(input, FirstContent(input, FirstLine(input))) = 0

C3_UnindentedAfterBlankRunDeclines ==
    (Returned /\ C3_Case) => ~ret

\* the lookahead ran, skipped an indented comment-only line, and declined
C3_Witness ==
    /\ Declined
    /\ C3_Case
    /\ valid_symbols[CONTENT_BLANK]
    /\ ~valid_symbols[ERROR_SENTINEL]
    /\ lexer.mark_ends = 1
    /\ \E i \in 1..Len(input) :
          /\ i < FirstContent(input, FirstLine(input))
          /\ i > FirstLine(input)
          /\ At(input, i - 1) = LF
          /\ LineKind(input, i) = "comment"
          /\ LineIndent(input, i) >= 1

(***************************************************************************)
(* C5: whenever ERROR_SENTINEL is acceptable scan returns no match, for    *)
(* every input and every value of the other two flags, without advancing   *)
(* the cursor, calling mark_end or setting a result kind.                  *)
(***************************************************************************)
Untouched ==
    /\ lexer.pos = 0
    /\ lexer.advances = 0
    /\ lexer.mark_ends = 0
    /\ lexer.token_end = NO_MARK
    /\ lexer.result_symbol = NO_SYMBOL

C5_ErrorRecoveryDeclines ==
    (valid_symbols[ERROR_SENTINEL] /\ pc # "call") => (Declined /\ Untouched)

\* recovery mode (all kinds acceptable) on an input that would match
C5_Witness ==
    /\ Declined
    /\ valid_symbols[ERROR_SENTINEL]
    /\ valid_symbols[INDENT]
    /\ valid_symbols[CONTENT_BLANK]
    /\ FirstLine(input) # 0
    /\ LineKind(input, FirstLine(input)) = "content"
    /\ LineIndent(input, FirstLine(input)) >= 1

(***************************************************************************)
(* C4: comment-only lines are transparent.  Inserting a whole comment-only *)
(* line (optional indentation, //, any text, line break) at the start of   *)
(* any line between the initial break and the first content line leaves    *)
(* the verdict and the token kind of scan unchanged, for the same          *)
(* acceptable kinds.  Removal is the same statement read backwards.        *)
(***************************************************************************)
CommentTexts == {<<>>} \cup {<<c>> : c \in ContentChars}
LineBreaks == {<<LF>>, <<CR, LF>>, <<CR>>}
CommentLines ==
    {i \o <<SLASH, SLASH>> \o t \o b :
        i \in Indents, t \in CommentTexts, b \in LineBreaks}

\* the index after each logical line break of s
LineStarts(s) ==
    {k + BreakLen(s, k) :
        k \in {j \in 1..Len(s) :
                /\ BreakLen(s, j) > 0
                /\ ~(s[j] = LF /\ At(s, j - 1) = CR)}}

\* the line starts with only blank and comment-only lines before them
InsertionPoints(s) ==
    {i \in LineStarts(s) :
        /\ FirstLine(s) # 0
        /\ \A j \in LineStarts(s) :
              j < i => LineKind(s, j) \in {"blank", "comment"}}

\* a line ending in a lone \r cannot be put before a \n: the two would
\* read as one \r\n
Insertable(s, i, c) == c[Len(c)] = CR => At(s, i) # LF

Insert(s, i, c) == SubSeq(s, 1, i - 1) \o c \o SubSeq(s, i, Len(s))

C4_CommentLinesTransparent ==
    Returned =>
        \A i \in InsertionPoints(input), c \in CommentLines :
            Insertable(input, i, c) =>
                LET r == external_scanner_scan(Insert(input, i, c),
                                               valid_symbols)
                IN  /\ r.ret = ret
                    /\ r.lexer.result_symbol = lexer.result_symbol

\* a CONTENT_BLANK match whose blank run has a place for a comment line
\* between the first blank line and the content line
C4_Witness ==
    /\ Matched
    /\ lexer.result_symbol = CONTENT_BLANK
    /\ \E i \in InsertionPoints(input) :
          /\ i > FirstLine(input)
          /\ LineKind(input, i) = "content"

(***************************************************************************)
(* C6: if scan returns no match then mark_end was never called during the  *)
(* call.                                                                   *)
(***************************************************************************)
C6_DeclineNeverMarks == Declined => lexer.mark_ends = 0

(***************************************************************************)
(* C6 as the code has it: if scan returns no match then no result kind     *)
(* has been set, and mark_end was called at most once, and only on the     *)
(* blank-line lookahead path: CONTENT_BLANK acceptable, the first line     *)
(* after the initial break that is no comment-only line is blank, and the  *)
(* mark is the end of that blank line, set before the lookahead.           *)
(***************************************************************************)
C6_DeclineMarksOnlyBlankLine ==
    Declined =>
        /\ lexer.result_symbol = NO_SYMBOL
        /\ lexer.mark_ends <= 1
        /\ lexer.mark_ends = 1 =>
              LET i == SkipComments(input, FirstLine(input))
              IN  /\ valid_symbols[CONTENT_BLANK]
                  /\ i # 0
                  /\ LineKind(input, i) \in {"blank", "end"}
                  /\ lexer.token_end = LineEnd(input, i) - 1

\* the lookahead path declined on unindented content
C6_Witness ==
    /\ Declined
    /\ lexer.mark_ends = 1
    /\ lexer.pos > lexer.token_end
    /\ FirstContent(input, FirstLine(input)) # 0

(***************************************************************************)
(* C7: whenever scan returns a match the reported kind is INDENT or        *)
(* CONTENT_BLANK and mark_end was called during the call; ERROR_SENTINEL   *)
(* is never the result kind.                                               *)
(***************************************************************************)
C7_MatchReportsMarkedToken ==
    /\ lexer.result_symbol # ERROR_SENTINEL
    /\ Matched =>
          /\ lexer.result_symbol \in {INDENT, CONTENT_BLANK}
          /\ lexer.mark_ends >= 1
          /\ lexer.token_end # NO_MARK

\* an INDENT match behind a skipped comment-only line
C7_Witness ==
    /\ Matched
    /\ lexer.result_symbol = INDENT
    /\ lexer.mark_ends = 1
    /\ FirstLine(input) # 0
    /\ LineKind(input, FirstLine(input)) = "comment"

(***************************************************************************)
(* C8: if the lookahead is no newline character, or neither INDENT nor     *)
(* CONTENT_BLANK is acceptable, scan returns no match at once, with no     *)
(* call of advance and no call of mark_end.                                *)
(***************************************************************************)
C8_Case ==
    \/ At(input, 1) \notin {LF, CR}
    \/ ~(valid_symbols[INDENT] \/ valid_symbols[CONTENT_BLANK])

C8_NotEnteredLeavesCursor ==
    (C8_Case /\ pc # "call") =>
        /\ Declined
        /\ lexer.advances = 0
        /\ lexer.mark_ends = 0
        /\ lexer.pos = 0
        /\ lexer.token_end = NO_MARK

\* at a line break before indented content, but nothing acceptable
C8_Witness ==
    /\ Declined
    /\ valid_symbols = [t \in TokenType |-> FALSE]
    /\ FirstLine(input) # 0
    /\ LineKind(input, FirstLine(input)) = "content"
    /\ LineIndent(input, FirstLine(input)) >= 1

(***************************************************************************)
(* C9: line-break forms are interchangeable.  Replacing a line break \n    *)
(* by \r\n, or by a lone \r not followed by \n, leaves the verdict and    *)
(* the kind of scan unchanged and the token end at the corresponding       *)
(* position.                                                               *)
(***************************************************************************)
\* the \n that are a line break of their own
LfBreaks(s) == {k \in 1..Len(s) : s[k] = LF /\ At(s, k - 1) # CR}

WithCrLf(s, k) == SubSeq(s, 1, k - 1) \o <<CR, LF>> \o SubSeq(s, k + 1, Len(s))

WithCr(s, k) == [s EXCEPT ![k] = CR]

\* position p of s in WithCrLf(s, k)
Shifted(p, k) == IF p >= k THEN p + 1 ELSE p

SameVerdict(r) ==
    /\ r.ret = ret
    /\ r.lexer.result_symbol = lexer.result_symbol

C9_LineBreakFormsInterchangeable ==
    Returned =>
        \A k \in LfBreaks(input) :
            /\ LET r == external_scanner_scan(WithCrLf(input, k),
                                              valid_symbols)
               IN  /\ SameVerdict(r)
                   /\ ret => r.lexer.token_end = Shifted(lexer.token_end, k)
            /\ At(input, k + 1) # LF =>
                  LET r == external_scanner_scan(WithCr(input, k),
                                                 valid_symbols)
                  IN  /\ SameVerdict(r)
                      /\ ret => r.lexer.token_end = lexer.token_end

\* a match whose token spans one \n and ends before another
C9_Witness ==
    /\ Matched
    /\ \E k \in LfBreaks(input) : k <= lexer.token_end
    /\ \E k \in LfBreaks(input) : k > lexer.token_end

(***************************************************************************)
(* C10: whenever scan matches INDENT on a line with indentation followed   *)
(* by non-comment content, the token end lies after the last indentation   *)
(* character and before the first content character.                       *)
(***************************************************************************)
C10_IndentEndsBeforeContent ==
    (Matched /\ lexer.result_symbol = INDENT) =>
        LET i == SkipComments(input, FirstLine(input))
        IN  /\ i # 0
            /\ LineKind(input, i) = "content"
            /\ LineIndent(input, i) >= 1
            /\ lexer.token_end = AfterIndent(input, i) - 1

(***************************************************************************)
(* C11: if, from the initial line break on, end of input is reached before *)
(* any non-comment content line (every remaining line is blank,            *)
(* whitespace-only or comment-only, the last one possibly without a        *)
(* terminating break), scan returns no match whatever is acceptable.       *)
(***************************************************************************)
C11_Case ==
    /\ FirstLine(input) # 0
    /\ FirstContent(input, FirstLine(input)) = 0

C11_EndOfInputDeclines == (Returned /\ C11_Case) => ~ret

\* a whitespace-only last line without a break, INDENT acceptable
C11_Witness ==
    /\ Declined
    /\ C11_Case
    /\ valid_symbols[INDENT]
    /\ ~valid_symbols[ERROR_SENTINEL]
    /\ lexer.pos = Len(input)
    /\ At(input, Len(input)) \in {SP, TAB}

(***************************************************************************)
(* C13: INDENT is produced only for two or more spaces or a tab: a content *)
(* line indented by exactly one space (and no tab) never yields INDENT.    *)
(***************************************************************************)
\* the line an INDENT match is about
MatchedLine == SkipComments(input, FirstLine(input))

C14_Case ==
    /\ MatchedLine # 0
    /\ LineIndent(input, MatchedLine) >= 1
    /\ At(input, AfterIndent(input, MatchedLine)) = SLASH
    /\ At(input, AfterIndent(input, MatchedLine) + 1) # SLASH
    /\ valid_symbols[INDENT]
    /\ ~valid_symbols[ERROR_SENTINEL]

C14_LoneSlashInsideIndent ==
    (Returned /\ C14_Case) =>
        /\ ret
        /\ lexer.result_symbol = INDENT
        /\ lexer.token_end = AfterIndent(input, MatchedLine)

\* "/b" behind indentation: the token ends between / and b
C14_Witness ==
    /\ Matched
    /\ C14_Case
    /\ At(input, lexer.token_end) = SLASH
    /\ At(input, lexer.token_end + 1) \in ContentChars

(***************************************************************************)
(* C15: INDENT and CONTENT_BLANK exclude each other per line: INDENT is    *)
(* reported only when the first non-comment line after the initial break   *)
(* has content, CONTENT_BLANK only when that line is blank or              *)
(* whitespace-only, whatever is acceptable.                                *)
(***************************************************************************)
C15_KindsExcludeEachOther ==
    Matched =>
        /\ MatchedLine # 0
        /\ lexer.result_symbol = INDENT =>
              LineKind(input, MatchedLine) = "content"
        /\ lexer.result_symbol = CONTENT_BLANK =>
              LineKind(input, MatchedLine) = "blank"
        /\ (LineKind(input, MatchedLine) = "blank") =>
              lexer.result_symbol # INDENT
        /\ (LineKind(input, MatchedLine) = "content") =>
              lexer.result_symbol # CONTENT_BLANK

\* both kinds acceptable, a whitespace-only line before indented content
C15_Witness ==
    /\ Matched
    /\ valid_symbols[INDENT]
    /\ valid_symbols[CONTENT_BLANK]
    /\ LineKind(input, MatchedLine) = "blank"
    /\ LineIndent(input, MatchedLine) >= 1
    /\ lexer.result_symbol = CONTENT_BLANK

(***************************************************************************)
(* C16: if the first non-comment line after the initial line break has     *)
(* content and no indentation, scan returns no match whatever is           *)
(* acceptable, and mark_end is never called.                               *)
(***************************************************************************)
C16_Case ==
    /\ MatchedLine # 0
    /\ LineKind(input, MatchedLine) = "content"
    /\ LineIndent(input, MatchedLine) = 0

C16_UnindentedContentDeclines ==
    (Returned /\ C16_Case) => (~ret /\ lexer.mark_ends = 0)

\* unindented content behind a skipped comment-only line, all but the
\* sentinel acceptable
C16_Witness ==
    /\ Declined
    /\ C16_Case
    /\ MatchedLine > FirstLine(input)
    /\ valid_symbols[INDENT]
    /\ valid_symbols[CONTENT_BLANK]
    /\ ~valid_symbols[ERROR_SENTINEL]

(***************************************************************************)
(* C18: whenever scan returns a match the reported kind was acceptable,    *)
(* and ERROR_SENTINEL was not.                                             *)
(***************************************************************************)
C18_ReportedKindAcceptable ==
    Matched =>
        /\ lexer.result_symbol \in TokenType
        /\ valid_symbols[lexer.result_symbol]
        /\ ~valid_symbols[ERROR_SENTINEL]

\* CONTENT_BLANK reported with INDENT not acceptable
C18_Witness ==
    /\ Matched
    /\ lexer.result_symbol = CONTENT_BLANK
    /\ ~valid_symbols[INDENT]

(***************************************************************************)
(* C19: whenever scan matches INDENT the token end equals the final read   *)
(* position, and the token spans the initial line break, the skipped       *)
(* comment-only lines and the indentation of the content line; on a        *)
(* CONTENT_BLANK match the read position is strictly past the token end.   *)
(***************************************************************************)
C19_IndentEndIsReadPosition ==
    Matched =>
        /\ lexer.result_symbol = INDENT =>
              /\ lexer.token_end = lexer.pos
              /\ lexer.token_end >= AfterIndent(input, MatchedLine) - 1
              /\ lexer.token_end <= AfterIndent(input, MatchedLine)
        /\ lexer.result_symbol = CONTENT_BLANK =>
              lexer.pos > lexer.token_end

\* INDENT behind a skipped comment-only line: the token spans that line
C19_Witness ==
    /\ Matched
    /\ lexer.result_symbol = INDENT
    /\ MatchedLine > FirstLine(input)
    /\ lexer.token_end = AfterIndent(input, MatchedLine) - 1

(***************************************************************************)
(* C17: every scan call terminates: each iteration of the comment-skip     *)
(* loop and of the lookahead loop advances the cursor by at least one code *)
(* point, advance is never called at end of input, and the call eventually *)
(* returns.                                                                *)
(***************************************************************************)
\* every call of advance moved the read position
NoAdvanceAtEof == lexer.advances = lexer.pos

\* an iteration that does not return has moved the read position
IterationAdvances ==
    (pc \in {"line", "lookahead"} /\ pc' # "done") =>
        lexer'.pos > lexer.pos

C17_ScanTerminates ==
    /\ <>(pc = "done")
    /\ [](NoAdvanceAtEof /\ lexer.pos <= Len(input))
    /\ [][IterationAdvances]_vars

\* a call that went round the comment-skip loop, entered the lookahead
\* and returned at end of input
C17_Witness ==
    /\ Returned
    /\ lexer.pos = Len(input)
    /\ FirstLine(input) # 0
    /\ LineKind(input, FirstLine(input)) = "comment"
    /\ MatchedLine # 0
    /\ lexer.mark_ends = 1

(***************************************************************************)
(* C12: the scanner carries no state across calls.  Over any sequence of   *)
(* create, scan, serialize, deserialize and destroy: serialize returns     *)
(* zero bytes and leaves the buffer as it is, the scanner instance changes *)
(* only by create and destroy, and a scan call given the same character    *)
(* stream and acceptable kinds as the call before it gives the same        *)
(* verdict, kind and token end.                                            *)
(***************************************************************************)
SameCallAsPrevious ==
    /\ prev # NoCall
    /\ prev[1].input = input
    /\ prev[1].valid = valid_symbols

SameAnswerAsPrevious ==
    /\ prev[1].ret = ret
    /\ prev[1].result_symbol = lexer.result_symbol
    /\ prev[1].token_end = lexer.token_end

C12_NoCrossCallState ==
    /\ [](/\ serialized \subseteq {0}
          /\ scanner # NULL => scanner = external_scanner_create
          /\ (Returned /\ SameCallAsPrevious) => SameAnswerAsPrevious)
    /\ [][/\ buffer' = buffer
          /\ scanner' # scanner => (scanner = NULL \/ scanner' = NULL)]_vars

\* a match repeated after a serialize, with a buffer that held a nonzero
\* byte
C12_Witness ==
    /\ Matched
    /\ SameCallAsPrevious
    /\ prev[1].ret
    /\ serialized = {0}
    /\ buffer = <<1>>
    /\ lexer.result_symbol = CONTENT_BLANK

====
